---------------------------- MODULE Spec2Model ----------------------------
(***************************************************************************)
(* Model of the defi_pool_backend canister (src/defi_pool_backend/src/     *)
(* lib.rs): the POOL and CF_POOL ledgers, the risk-service principal, and  *)
(* the update calls signup, init_tokens, add_token, set_ai_proxy, deposit, *)
(* withdraw_collateral, borrow, repay, deposit_collateral and              *)
(* contribute_crowdfund.                                                   *)
(*                                                                         *)
(* Execution model.  A canister runs one message at a time; an update call *)
(* runs atomically up to its next `.await` of an inter-canister call, and  *)
(* resumes in a later step when the reply arrives.  Each action below is   *)
(* one such segment of one call.  POOL and CF_POOL are std::sync::Mutex    *)
(* values; a guard that is alive at an `.await` stays locked while the     *)
(* call is suspended.  Locking a std Mutex that the same thread already    *)
(* holds never returns: it panics (the canister traps and the segment's    *)
(* writes are rolled back) or it blocks for ever.  Both outcomes are       *)
(* modelled (the *_trap actions and Hang).                                 *)
(***************************************************************************)
EXTENDS Integers, Sequences, FiniteSets, TLC

(* ------------------------------ bounds -------------------------------- *)

\* Number of update calls started in one behaviour.  A completed init_tokens
\* or set_ai_proxy is not counted: each has one possible effect, and a repeat
\* changes nothing.
MaxCalls == 3

\* Largest amount a caller passes.
MaxAmt == 1

\* Number of update calls that can be suspended at the same time.
MaxInflight == 2

Users == {"u1", "u2"}

Names == {"alice", "bob"}

Tokens == {"ICP", "FAKEBTC"}

Amounts == 1..MaxAmt

\* Amounts passed to repay and withdraw_collateral: one more than the largest
\* single credit, so that a debit can exceed a balance that is not zero.
DebitAmounts == 1..(MaxAmt + 1)

Slots == 1..MaxInflight

\* Principals that add_token may register for a token ("ulvla" is the ICP
\* ledger that init_tokens registers).
Principals == {"p2"}

(***************************************************************************)
(* The USD values are f64.  They are sums of products of naturals, so they *)
(* are never negative and every finite one is an integer: a finite value   *)
(* is written as the integer it equals.  The two values that are not      *)
(* finite, and u64::MAX (the value that `as u64` gives for them and for    *)
(* every finite value from 2^64 on), are written as negative codes.        *)
(***************************************************************************)

\* f64::INFINITY
F64_INFINITY == -1

\* f64::NAN
F64_NAN == -2

\* u64::MAX = 18446744073709551615 = 2^64 - 1
U64_MAX == -3

\* Largest unit of the USD values handed to risk_check on its own.
MaxUsd == 6

\* borrowed_usd values handed to risk_check on its own: small ones, and the
\* value of a balance that is beyond the range of f64.
UsdBorrowed == (0..MaxUsd) \cup {F64_INFINITY}

\* deposits_usd values handed to risk_check on its own: small ones, and
\* multiples of 16 and of 100 so that the ratio also falls on a tie of the
\* rounding, at the floor of the clamp and below it.
UsdDeposits ==
    {m * k : m \in 0..MaxUsd, k \in {1, 16, 100}} \cup {F64_INFINITY}

\* Largest amount passed to a call of the token ledger.
MaxTokenAmt == 1

\* Largest total supply the token ledger is run to.
MaxSupply == 2

\* Principals that hold the token and call the token ledger: a user and the
\* pool canister.
Holders == {"u1", "pool"}

TokenAmounts == 0..MaxTokenAmt

\* Probabilities that the risk service prints into the advice of a high-risk
\* answer (two decimals; a high-risk answer has a probability of 0.5 or more).
Probs == {"0.50", "0.99"}

VARIABLES
    users,                \* POOL.users: user -> UserAccount
    usernames,            \* POOL.usernames: user -> username
    stablecoin_balances,  \* POOL.stablecoin_balances: user -> token -> Nat
    collateral,           \* POOL.collateral: user -> token -> Nat
    supported_tokens,     \* POOL.supported_tokens: Vec<String>
    token_canisters,      \* POOL.token_canisters: token -> Principal
    mint_logs,            \* POOL.mint_logs: Vec<(user, token, amount)>
    per_user_mint_logs,   \* POOL.per_user_mint_logs: user -> Vec<(token, amount)>
    funds,                \* CF_POOL.funds: token -> Nat
    contributors,         \* CF_POOL.contributors: user -> token -> Nat
    ai_proxy,             \* AI_SERVICE_PROXY_PRINCIPAL: "None" or a principal
    pool_lock,            \* holder of the POOL mutex: 0 (free) or a slot
    cf_lock,              \* holder of the CF_POOL mutex: 0 (free) or a slot
    inflight,             \* slot -> the suspended call in it (or Idle)
    last,                 \* the call that ended most recently, with its result
    calls,                \* number of calls started (see MaxCalls)
    hung,                 \* the thread blocked for ever on a held mutex
    total_supply,         \* dip20 TOKEN.total_supply
    balances,             \* dip20 TOKEN.balances: principal -> Nat
    allowances,           \* dip20 TOKEN.allowances: (owner, spender) -> Nat
    token_last            \* the call of the token ledger that ended last

ledger == <<users, usernames, stablecoin_balances, collateral, supported_tokens,
            token_canisters, mint_logs, per_user_mint_logs>>

cf_pool == <<funds, contributors>>

vars == <<users, usernames, stablecoin_balances, collateral, supported_tokens,
          token_canisters, mint_logs, per_user_mint_logs, funds, contributors,
          ai_proxy, pool_lock, cf_lock, inflight, last, calls, hung,
          total_supply, balances, allowances, token_last>>

\* The state of the dip20_icp_token canister (name, symbol and decimals are
\* set once by init and never written again; they are left out).
dip20 == <<total_supply, balances, allowances, token_last>>

\* The state of the defi_pool_backend canister.
pool_canister == <<ledger, cf_pool, ai_proxy, pool_lock, cf_lock, inflight,
                   last, calls, hung>>

(* ------------------------- HashMap helpers ---------------------------- *)

EmptyMap == [k \in {} |-> 0]

\* HashMap::get(k).cloned().unwrap_or(d)
Get(m, k, d) == IF k \in DOMAIN m THEN m[k] ELSE d

\* HashMap::insert(k, v)
Put(m, k, v) == [x \in (DOMAIN m) \cup {k} |-> IF x = k THEN v ELSE m[x]]

\* m.entry(u).or_default().entry(t).or_insert(0), then the entry set to f(old)
Entry2(m, u, t, v) == Put(m, u, Put(Get(m, u, EmptyMap), t, v))

\* the value m.entry(u).or_default().entry(t).or_insert(0) refers to
Cell(m, u, t) == Get(Get(m, u, EmptyMap), t, 0)

(* ------------------ dip20_icp_token: state after init ----------------- *)

TokenCall(op, caller, from, to, amount, result) ==
    [op |-> op, caller |-> caller, from |-> from, to |-> to,
     amount |-> amount, result |-> result]

\* DIP20Token::default() and init (dip20_icp_token/src/lib.rs 27-36).
DIP20Init ==
    /\ total_supply = 0
    /\ balances = EmptyMap
    /\ allowances = EmptyMap
    /\ token_last = TokenCall("none", "", "", "", 0, "none")

(* --------------------------- price table ------------------------------ *)

Price(token) ==
    CASE token = "ICP" -> 1
      [] token = "FAKEBTC" -> 50000
      [] token = "FAKEETH" -> 3000
      [] OTHER -> 1

(* ------------------------------- f64 ---------------------------------- *)

\* Number of bits of the natural n (BigUint::bits).
RECURSIVE BitLen(_)
BitLen(n) == IF n = 0 THEN 0 ELSE 1 + BitLen(n \div 2)

\* num / den rounded to the nearest integer, a tie to the even one.
RoundHalfEven(num, den) ==
    LET q == num \div den
        r == num % den
    IN IF 2 * r > den \/ (2 * r = den /\ q % 2 = 1) THEN q + 1 ELSE q

\* The f64 nearest to the natural n: n itself up to 53 bits, else n rounded
\* to 53 significant bits (ties to even), and infinity from 2^1024 - 2^970 on.
RoundToF64(n) ==
    IF BitLen(n) <= 53 THEN n
    ELSE LET e == BitLen(n) - 53
             m == RoundHalfEven(n, 2^e)
         IN IF BitLen(m * 2^e) > 1024 THEN F64_INFINITY ELSE m * 2^e

\* amt.0.to_f64().unwrap_or(0.0): BigUint::to_f64 gives Some(the nearest
\* f64), Some(INFINITY) for a value above f64::MAX, and never None.
to_f64(amt) == RoundToF64(amt)

\* x * price for a price >= 1.0
F64Mul(x, price) == IF x < 0 THEN x ELSE RoundToF64(x * price)

\* x + y
F64Add(x, y) ==
    IF x = F64_NAN \/ y = F64_NAN THEN F64_NAN
    ELSE IF x = F64_INFINITY \/ y = F64_INFINITY THEN F64_INFINITY
    ELSE RoundToF64(x + y)

\* x > 0.0
F64Positive(x) == x = F64_INFINITY \/ x > 0

\* x as u64: saturating, NaN gives 0
as_u64(x) ==
    IF x = F64_NAN THEN 0
    ELSE IF x = F64_INFINITY \/ BitLen(x) > 64 THEN U64_MAX
    ELSE x

\* The orders in which a HashMap can give its entries: every order of its
\* keys (the hasher is seeded at random for every map; a clone keeps the
\* order of the map it was cloned from).
Orders(m) ==
    {o \in [1..Cardinality(DOMAIN m) -> DOMAIN m] :
        \A i, j \in DOMAIN o : o[i] = o[j] => i = j}

\* iter().map(|(token, amt)| amt.to_f64() * price).sum(): the f64 sum of the
\* entries of m taken in the order `order`, each term added to the sum of the
\* terms before it.
RECURSIVE SumUsd(_, _)
SumUsd(m, order) ==
    IF Len(order) = 0 THEN 0
    ELSE LET k == order[Len(order)]
         IN F64Add(SumUsd(m, SubSeq(order, 1, Len(order) - 1)),
                   F64Mul(to_f64(m[k]), Price(k)))

\* The three functions take the map; `order` is the order in which the map
\* gives its entries in this call.
aggregate_collateral(account_collateral, order) ==
    SumUsd(account_collateral, order)

aggregate_borrowed(account_borrowed, order) ==
    SumUsd(account_borrowed, order)

aggregate_deposits(account_balances, order) ==
    SumUsd(account_balances, order)

(* ----------------------------- queries -------------------------------- *)

(***************************************************************************)
(* Every query below starts with POOL.lock().unwrap().  While a suspended  *)
(* call holds the guard the lock attempt panics or blocks, and the query   *)
(* returns nothing.  Each operator is the set of the values that a call of *)
(* the query can return in the current state: one value, or none.          *)
(***************************************************************************)

get_balance(user, token) ==
    IF pool_lock # 0 THEN {} ELSE {Cell(stablecoin_balances, user, token)}

get_user_collateral(user) ==
    IF pool_lock # 0 THEN {} ELSE {Get(collateral, user, "None")}

get_mint_logs == IF pool_lock # 0 THEN {} ELSE {mint_logs}

get_per_user_mint_logs(user) ==
    IF pool_lock # 0 THEN {} ELSE {Get(per_user_mint_logs, user, <<>>)}

(* ----------------------------- records -------------------------------- *)

\* UserAccount::default() with credit_score = 700 (signup)
NewAccount ==
    [deposited |-> 0, borrowed |-> 0, collateral |-> 0, credit_score |-> 700,
     risk_advice |-> "None", username |-> "None"]

NoRequest ==
    [volatility |-> 0, collateral |-> 0, borrowed |-> 0, deposits |-> 0,
     credit_score |-> 0]

\* One update call: its arguments, its locals, and what it has seen so far.
\*   pc          "idle", "await_risk", "await_transfer", "await_mint", "done"
\*   verdict     what risk_check gave: "none" (not run), "unavailable" (None),
\*               "safe" / "high_risk" (Some(resp) with risk_score 0 / 1)
\*   request     the RiskRequest sent (NoRequest: no call was made)
\*   transferred, minted   "none" (no call made), "ok", "fail"
\*   result      "none", "true", "false", "trap"
\*   pre, post   the cell the call works on, when the call first reads it and
\*               when the call ends
NewCall(op, caller, token, amount) ==
    [op |-> op, pc |-> "idle", caller |-> caller, token |-> token,
     amount |-> amount, username |-> "", coll_usd |-> 0, borrowed_usd |-> 0,
     deposits_usd |-> 0, request |-> NoRequest, verdict |-> "none",
     transferred |-> "none", minted |-> "none", result |-> "none",
     pre |-> 0, post |-> 0]

Idle == NewCall("none", "", "", 0)

Ended(rec, result, post) ==
    [rec EXCEPT !.pc = "done", !.result = result, !.post = post]

FreeSlots == {s \in Slots : inflight[s].op = "none"}

FirstFree == CHOOSE s \in FreeSlots : \A r \in FreeSlots : s <= r

CanStart == ~hung /\ calls < MaxCalls


(* ------------------- a call that finds POOL locked -------------------- *)

\* POOL.lock().unwrap() while a suspended call holds the guard, panic
\* outcome: the message traps, its writes are rolled back, the call ends.
call_trap(op, caller, token, amount) ==
    /\ CanStart
    /\ pool_lock # 0
    /\ calls' = calls + 1
    /\ last' = Ended(NewCall(op, caller, token, amount), "trap", 0)
    /\ UNCHANGED <<ledger, cf_pool, ai_proxy, pool_lock, cf_lock, inflight, hung>>
    /\ UNCHANGED dip20

\* Some call is about to run POOL.lock() with nothing written before it: a
\* new call (every call but set_ai_proxy and contribute_crowdfund locks POOL
\* as its first step), or a deposit or contribute_crowdfund whose mint reply
\* arrives.
LockWanted ==
    IF calls < MaxCalls THEN TRUE
    ELSE \E s \in Slots : /\ inflight[s].pc = "await_mint"
                          /\ inflight[s].op \in {"deposit", "contribute_crowdfund"}

\* The same lock attempt, blocking outcome: the only thread never returns
\* (contribute_crowdfund_hang is that outcome for a new contribute_crowdfund).
Hang ==
    /\ ~hung
    /\ pool_lock # 0
    /\ LockWanted
    /\ hung' = TRUE
    /\ UNCHANGED <<ledger, cf_pool, ai_proxy, pool_lock, cf_lock, inflight, last, calls>>
    /\ UNCHANGED dip20

(* --------------------------- init_tokens ------------------------------ *)

init_tokens ==
    /\ ~hung
    /\ pool_lock = 0
    /\ calls' = calls
    /\ IF supported_tokens = <<>>
       THEN /\ supported_tokens' = <<"ICP", "FAKEBTC", "FAKEETH">>
            /\ token_canisters' = Put(token_canisters, "ICP", "ulvla")
            /\ last' = Ended(NewCall("init_tokens", "", "", 0), "true", 0)
       ELSE /\ UNCHANGED <<supported_tokens, token_canisters>>
            /\ last' = Ended(NewCall("init_tokens", "", "", 0), "false", 0)
    /\ UNCHANGED <<users, usernames, stablecoin_balances, collateral, mint_logs,
                   per_user_mint_logs, cf_pool, ai_proxy, pool_lock, cf_lock,
                   inflight, hung>>
    /\ UNCHANGED dip20

(* ------------------------------ signup -------------------------------- *)

\* signup without the contains_key guard of lines 92-94.
signup_unguarded(user, username) ==
    /\ CanStart
    /\ pool_lock = 0
    /\ calls' = calls + 1
    /\ users' = Put(users, user, NewAccount)
    /\ usernames' = Put(usernames, user, username)
    /\ last' = Ended([NewCall("signup", user, "", 0) EXCEPT !.username = username],
                     "true", 0)
    /\ UNCHANGED <<stablecoin_balances, collateral, supported_tokens,
                   token_canisters, mint_logs, per_user_mint_logs, cf_pool,
                   ai_proxy, pool_lock, cf_lock, inflight, hung>>
    /\ UNCHANGED dip20

signup(user, username) ==
    /\ CanStart
    /\ pool_lock = 0
    /\ calls' = calls + 1
    /\ LET rec == [NewCall("signup", user, "", 0) EXCEPT !.username = username]
       IN IF user \in DOMAIN users
          THEN /\ UNCHANGED <<users, usernames>>
               /\ last' = Ended(rec, "false", 0)
          ELSE /\ users' = Put(users, user, NewAccount)
               /\ usernames' = Put(usernames, user, username)
               /\ last' = Ended(rec, "true", 0)
    /\ UNCHANGED <<stablecoin_balances, collateral, supported_tokens,
                   token_canisters, mint_logs, per_user_mint_logs, cf_pool,
                   ai_proxy, pool_lock, cf_lock, inflight, hung>>
    /\ UNCHANGED dip20

(* ---------------------------- set_ai_proxy ---------------------------- *)

\* Locks AI_SERVICE_PROXY_PRINCIPAL only, which no call holds across an await.
set_ai_proxy(principal) ==
    /\ ~hung
    /\ calls' = calls
    /\ ai_proxy' = principal
    /\ last' = Ended(NewCall("set_ai_proxy", "", "", 0), "true", 0)
    /\ UNCHANGED <<ledger, cf_pool, pool_lock, cf_lock, inflight, hung>>
    /\ UNCHANGED dip20

(* ------------------------------ add_token ----------------------------- *)

Contains(seq, x) == \E i \in 1..Len(seq) : seq[i] = x

add_token(token, principal) ==
    /\ CanStart
    /\ pool_lock = 0
    /\ calls' = calls + 1
    /\ IF Contains(supported_tokens, token)
       THEN /\ token_canisters' = Put(token_canisters, token, principal)
            /\ last' = Ended(NewCall("add_token", "", token, 0), "true", 0)
       ELSE /\ UNCHANGED token_canisters
            /\ last' = Ended(NewCall("add_token", "", token, 0), "false", 0)
    /\ UNCHANGED <<users, usernames, stablecoin_balances, collateral,
                   supported_tokens, mint_logs, per_user_mint_logs, cf_pool,
                   ai_proxy, pool_lock, cf_lock, inflight, hung>>
    /\ UNCHANGED dip20

(* ------------------------------ log_mint ------------------------------ *)

log_mint_global(logs, user, token, amount) ==
    Append(logs, <<user, token, amount>>)

\* log_mint_per_user with the user's log replaced where lines 231-234 push.
log_mint_per_user_replacing(logs, user, token, amount) ==
    Put(logs, user, <<<<token, amount>>>>)

log_mint_per_user(logs, user, token, amount) ==
    Put(logs, user, Append(Get(logs, user, <<>>), <<token, amount>>))

(* ------------------------- withdraw_collateral ------------------------ *)

\* withdraw_collateral with a saturating subtraction for the check of
\* line 306.
withdraw_collateral_clamped(user, token, amount) ==
    /\ CanStart
    /\ pool_lock = 0
    /\ calls' = calls + 1
    /\ LET coll == Cell(collateral, user, token)
           rec == [NewCall("withdraw_collateral", user, token, amount)
                       EXCEPT !.pre = coll]
           diff == IF coll < amount THEN 0 ELSE coll - amount
       IN /\ collateral' = Entry2(collateral, user, token, diff)
          /\ last' = Ended(rec, IF coll < amount THEN "false" ELSE "true", diff)
    /\ UNCHANGED <<users, usernames, stablecoin_balances, supported_tokens,
                   token_canisters, mint_logs, per_user_mint_logs, cf_pool,
                   ai_proxy, pool_lock, cf_lock, inflight, hung>>
    /\ UNCHANGED dip20

withdraw_collateral(user, token, amount) ==
    /\ CanStart
    /\ pool_lock = 0
    /\ calls' = calls + 1
    /\ LET coll == Cell(collateral, user, token)
           rec == [NewCall("withdraw_collateral", user, token, amount)
                       EXCEPT !.pre = coll]
       IN IF coll < amount
          THEN /\ collateral' = Entry2(collateral, user, token, coll)
               /\ last' = Ended(rec, "false", coll)
          ELSE /\ collateral' = Entry2(collateral, user, token, coll - amount)
               /\ last' = Ended(rec, "true", coll - amount)
    /\ UNCHANGED <<users, usernames, stablecoin_balances, supported_tokens,
                   token_canisters, mint_logs, per_user_mint_logs, cf_pool,
                   ai_proxy, pool_lock, cf_lock, inflight, hung>>
    /\ UNCHANGED dip20

(* -------------------------------- repay ------------------------------- *)

\* repay with `<=` for the `<` of line 364.
repay_strict(caller, token, amount) ==
    /\ CanStart
    /\ pool_lock = 0
    /\ calls' = calls + 1
    /\ LET entry == Cell(stablecoin_balances, caller, token)
           rec == [NewCall("repay", caller, token, amount) EXCEPT !.pre = entry]
       IN IF entry <= amount
          THEN /\ stablecoin_balances' =
                      Entry2(stablecoin_balances, caller, token, entry)
               /\ last' = Ended(rec, "false", entry)
          ELSE /\ stablecoin_balances' =
                      Entry2(stablecoin_balances, caller, token, entry - amount)
               /\ last' = Ended(rec, "true", entry - amount)
    /\ UNCHANGED <<users, usernames, collateral, supported_tokens,
                   token_canisters, mint_logs, per_user_mint_logs, cf_pool,
                   ai_proxy, pool_lock, cf_lock, inflight, hung>>
    /\ UNCHANGED dip20

repay(caller, token, amount) ==
    /\ CanStart
    /\ pool_lock = 0
    /\ calls' = calls + 1
    /\ LET entry == Cell(stablecoin_balances, caller, token)
           rec == [NewCall("repay", caller, token, amount) EXCEPT !.pre = entry]
       IN IF entry < amount
          THEN /\ stablecoin_balances' =
                      Entry2(stablecoin_balances, caller, token, entry)
               /\ last' = Ended(rec, "false", entry)
          ELSE /\ stablecoin_balances' =
                      Entry2(stablecoin_balances, caller, token, entry - amount)
               /\ last' = Ended(rec, "true", entry - amount)
    /\ UNCHANGED <<users, usernames, collateral, supported_tokens,
                   token_canisters, mint_logs, per_user_mint_logs, cf_pool,
                   ai_proxy, pool_lock, cf_lock, inflight, hung>>
    /\ UNCHANGED dip20


(* ----------------------------- risk_check ----------------------------- *)

\* risk_check without the early return of lines 197-200.
principal_unset_ignored == FALSE

\* `guard.clone()?` at lines 197-200: with no principal stored, risk_check
\* returns None there.
principal_unset == ai_proxy = "None"

\* ((b / d) * 1000.0).round() in f64 for finite b, d with 1/100 < b/d < 1/2:
\* the quotient is M / 2^s (53 significant bits, ties to even), its product
\* with 1000.0 is P / 2^t (the same rounding), and round() takes that to the
\* nearest integer, half away from zero.
scaled_vol_f64(b, d) ==
    LET s == CHOOSE x \in 54..59 : 2^52 * d <= b * 2^x /\ b * 2^x < 2^53 * d
        M == RoundHalfEven(b * 2^s, d)
        t == CHOOSE x \in 44..49 : /\ 2^52 * 2^s <= 1000 * M * 2^x
                                   /\ 1000 * M * 2^x < 2^53 * 2^s
        P == RoundHalfEven(1000 * M * 2^t, 2^s)
    IN (2 * P + 2^t) \div 2^(t + 1)

\* (volatility.clamp(0.01, 0.5) * 1000.0).round() as u64, where volatility
\* is borrowed_usd / deposits_usd if deposits_usd > 0.0 and 0.01 otherwise.
\*   - infinity / infinity is NaN, clamp keeps NaN, and NaN as u64 is 0;
\*   - a finite value over infinity is 0.0 (clamped to 0.01), infinity over
\*     a finite value is infinity (clamped to 0.5);
\*   - for finite values, a quotient of at most 1/100 or at least 1/2 is
\*     clamped; in between, while deposits_usd has at most 42 bits the two
\*     roundings of the f64 computation move the product by less than its
\*     distance to the nearest tie of round(), and an exact tie stays one:
\*     the result is floor(1000 * b / d + 1/2).  Above 42 bits the roundings
\*     are followed one by one (scaled_vol_f64).
scaled_vol(borrowed_usd, deposits_usd) ==
    IF ~F64Positive(deposits_usd) THEN 10
    ELSE IF borrowed_usd = F64_NAN THEN 0
    ELSE IF deposits_usd = F64_INFINITY
         THEN IF borrowed_usd = F64_INFINITY THEN 0 ELSE 10
    ELSE IF borrowed_usd = F64_INFINITY THEN 500
    ELSE IF 100 * borrowed_usd <= deposits_usd THEN 10
    ELSE IF 2 * borrowed_usd >= deposits_usd THEN 500
    ELSE IF BitLen(deposits_usd) <= 42
         THEN (2000 * borrowed_usd + deposits_usd) \div (2 * deposits_usd)
    ELSE scaled_vol_f64(borrowed_usd, deposits_usd)

risk_request(account, coll_usd, borrowed_usd, deposits_usd) ==
    [collateral |-> as_u64(coll_usd), borrowed |-> as_u64(borrowed_usd),
     deposits |-> as_u64(deposits_usd),
     volatility |-> scaled_vol(borrowed_usd, deposits_usd),
     credit_score |-> account.credit_score]

\* The answer of the risk service to a request (ai_service_proxy/src/lib.rs,
\* risk, lines 70-76), for its prediction pred and the probability it has
\* computed, printed with two decimals.
RiskResponse(pred, prob) ==
    [ok |-> TRUE, risk_score |-> pred,
     advice |-> IF pred = 0
                THEN "Safe to borrow"
                ELSE "High risk (prob " \o prob
                         \o "), consider increasing collateral"]

\* The inter-canister call returned Err.
CallFailed == [ok |-> FALSE, risk_score |-> 0, advice |-> ""]

\* Outcomes of the inter-canister call to the risk service.
RiskReplies ==
    {CallFailed, RiskResponse(0, "")} \cup {RiskResponse(1, p) : p \in Probs}

\* The text risk_check stores in account.risk_advice (lines 219-225): the
\* advice of the response, or a fixed text when the call failed.
risk_advice_of(reply) ==
    IF reply.ok THEN reply.advice ELSE "AI service unavailable"

\* what risk_check returns for a reply: Some(resp) as its verdict, None as
\* "unavailable"
risk_verdict(reply) ==
    IF ~reply.ok THEN "unavailable"
    ELSE IF reply.risk_score = 1 THEN "high_risk" ELSE "safe"

\* set_risk_advice that also writes the account's credit_score.
set_risk_advice_rescoring(accounts, user, reply) ==
    [accounts EXCEPT ![user].risk_advice = risk_advice_of(reply),
                     ![user].credit_score =
                         IF reply.ok /\ reply.risk_score = 0 THEN 700 ELSE 650]

set_risk_advice(accounts, user, reply) ==
    [accounts EXCEPT ![user].risk_advice = risk_advice_of(reply)]

(* ------------------------------- borrow ------------------------------- *)

\* borrow up to the await inside risk_check (lines 315-338, 197-217).
borrow(caller, token, amount) ==
    /\ CanStart
    /\ pool_lock = 0
    /\ calls' = calls + 1
    /\ LET coll_clone == Get(collateral, caller, EmptyMap)
           borrowed_clone == Get(stablecoin_balances, caller, EmptyMap)
           deposits_clone == Get(stablecoin_balances, caller, EmptyMap)
       IN \E coll_order \in Orders(coll_clone),
             balances_order \in Orders(borrowed_clone) :
          LET rec == [NewCall("borrow", caller, token, amount) EXCEPT
                      !.coll_usd =
                          aggregate_collateral(coll_clone, coll_order),
                      !.borrowed_usd =
                          aggregate_borrowed(borrowed_clone, balances_order),
                      !.deposits_usd =
                          aggregate_deposits(deposits_clone, balances_order),
                      !.pre = Cell(stablecoin_balances, caller, token)]
          IN IF caller \notin DOMAIN users
             THEN /\ last' = Ended(rec, "false", rec.pre)
                  /\ UNCHANGED <<pool_lock, inflight>>
             ELSE IF principal_unset
             THEN /\ last' = Ended([rec EXCEPT !.verdict = "unavailable"],
                                   "false", rec.pre)
                  /\ UNCHANGED <<pool_lock, inflight>>
             ELSE /\ FreeSlots # {}
                  /\ inflight' = [inflight EXCEPT ![FirstFree] =
                        [rec EXCEPT !.pc = "await_risk",
                                    !.request = risk_request(users[caller],
                                        rec.coll_usd, rec.borrowed_usd,
                                        rec.deposits_usd)]]
                  /\ pool_lock' = FirstFree
                  /\ UNCHANGED last
    /\ UNCHANGED <<ledger, cf_pool, ai_proxy, cf_lock, hung>>
    /\ UNCHANGED dip20

\* borrow from the reply of the risk call to the await of the mint call, or
\* to its return (lines 219-225, 336-347).  The POOL guard taken at line 331
\* is still alive.
borrow_risk_reply(s, reply) ==
    /\ ~hung
    /\ inflight[s].op = "borrow"
    /\ inflight[s].pc = "await_risk"
    /\ LET rec == [inflight[s] EXCEPT !.verdict = risk_verdict(reply)]
           entry == Cell(stablecoin_balances, rec.caller, rec.token)
       IN /\ users' = set_risk_advice(users, rec.caller, reply)
          /\ IF risk_verdict(reply) = "unavailable"
             THEN /\ last' = Ended(rec, "false", entry)
                  /\ inflight' = [inflight EXCEPT ![s] = Idle]
                  /\ pool_lock' = 0
                  /\ UNCHANGED stablecoin_balances
             ELSE /\ stablecoin_balances' =
                         Entry2(stablecoin_balances, rec.caller, rec.token,
                                entry + rec.amount)
                  /\ IF rec.token \in DOMAIN token_canisters
                     THEN /\ inflight' = [inflight EXCEPT ![s] =
                                 [rec EXCEPT !.pc = "await_mint"]]
                          /\ UNCHANGED <<last, pool_lock>>
                     ELSE /\ last' = Ended(rec, "true", entry + rec.amount)
                          /\ inflight' = [inflight EXCEPT ![s] = Idle]
                          /\ pool_lock' = 0
    /\ UNCHANGED <<usernames, collateral, supported_tokens, token_canisters,
                   mint_logs, per_user_mint_logs, cf_pool, ai_proxy, cf_lock,
                   calls, hung>>
    /\ UNCHANGED dip20

\* borrow from the reply of the mint call to its return (lines 347-351).
borrow_mint_reply(s, minted) ==
    /\ ~hung
    /\ inflight[s].op = "borrow"
    /\ inflight[s].pc = "await_mint"
    /\ LET rec == [inflight[s] EXCEPT !.minted = IF minted THEN "ok" ELSE "fail"]
       IN /\ mint_logs' = log_mint_global(mint_logs, rec.caller, rec.token,
                                          rec.amount)
          /\ per_user_mint_logs' = log_mint_per_user(per_user_mint_logs,
                                       rec.caller, rec.token, rec.amount)
          /\ last' = Ended(rec, "true", Cell(stablecoin_balances, rec.caller, rec.token))
    /\ inflight' = [inflight EXCEPT ![s] = Idle]
    /\ pool_lock' = 0
    /\ UNCHANGED <<users, usernames, stablecoin_balances, collateral,
                   supported_tokens, token_canisters, cf_pool, ai_proxy,
                   cf_lock, calls, hung>>
    /\ UNCHANGED dip20


(* -------------------------- deposit_collateral ------------------------ *)

\* deposit_collateral up to the await inside risk_check, or to its return
\* (lines 378-406, 197-217).
deposit_collateral(caller, token, amount) ==
    /\ CanStart
    /\ pool_lock = 0
    /\ calls' = calls + 1
    /\ LET coll == Cell(collateral, caller, token)
           collateral1 == Entry2(collateral, caller, token, coll + amount)
           coll_clone == Get(collateral1, caller, EmptyMap)
           borrowed_clone == Get(stablecoin_balances, caller, EmptyMap)
           deposits_clone == Get(stablecoin_balances, caller, EmptyMap)
       IN \E coll_order \in Orders(coll_clone),
             balances_order \in Orders(borrowed_clone) :
          LET rec == [NewCall("deposit_collateral", caller, token, amount) EXCEPT
                      !.coll_usd =
                          aggregate_collateral(coll_clone, coll_order),
                      !.borrowed_usd =
                          aggregate_borrowed(borrowed_clone, balances_order),
                      !.deposits_usd =
                          aggregate_deposits(deposits_clone, balances_order),
                      !.pre = coll]
          IN /\ collateral' = collateral1
             /\ IF caller \notin DOMAIN users
                THEN /\ last' = Ended(rec, "true", coll + amount)
                     /\ UNCHANGED <<pool_lock, inflight>>
                ELSE IF principal_unset
                THEN /\ last' = Ended([rec EXCEPT !.verdict = "unavailable"],
                                      "true", coll + amount)
                     /\ UNCHANGED <<pool_lock, inflight>>
                ELSE /\ FreeSlots # {}
                     /\ inflight' = [inflight EXCEPT ![FirstFree] =
                           [rec EXCEPT !.pc = "await_risk",
                                       !.request = risk_request(users[caller],
                                           rec.coll_usd, rec.borrowed_usd,
                                           rec.deposits_usd)]]
                     /\ pool_lock' = FirstFree
                     /\ UNCHANGED last
    /\ UNCHANGED <<users, usernames, stablecoin_balances, supported_tokens,
                   token_canisters, mint_logs, per_user_mint_logs, cf_pool,
                   ai_proxy, cf_lock, hung>>
    /\ UNCHANGED dip20

\* deposit_collateral from the reply of the risk call to its return
\* (lines 219-225, 403-406).
deposit_collateral_risk_reply(s, reply) ==
    /\ ~hung
    /\ inflight[s].op = "deposit_collateral"
    /\ inflight[s].pc = "await_risk"
    /\ LET rec == [inflight[s] EXCEPT !.verdict = risk_verdict(reply)]
       IN /\ users' = set_risk_advice(users, rec.caller, reply)
          /\ last' = Ended(rec, "true", Cell(collateral, rec.caller, rec.token))
    /\ inflight' = [inflight EXCEPT ![s] = Idle]
    /\ pool_lock' = 0
    /\ UNCHANGED <<usernames, stablecoin_balances, collateral, supported_tokens,
                   token_canisters, mint_logs, per_user_mint_logs, cf_pool,
                   ai_proxy, cf_lock, calls, hung>>
    /\ UNCHANGED dip20

(* ------------------------------- deposit ------------------------------ *)

\* deposit up to the await of transferFrom, or to its return (lines 245-267).
deposit(caller, token, amount) ==
    /\ CanStart
    /\ pool_lock = 0
    /\ calls' = calls + 1
    /\ LET rec == NewCall("deposit", caller, token, amount)
       IN IF token \notin DOMAIN token_canisters
          THEN /\ last' = Ended(rec, "false", Cell(stablecoin_balances, caller, token))
               /\ UNCHANGED inflight
          ELSE /\ FreeSlots # {}
               /\ inflight' = [inflight EXCEPT ![FirstFree] =
                     [rec EXCEPT !.pc = "await_transfer"]]
               /\ UNCHANGED last
    /\ UNCHANGED <<ledger, cf_pool, ai_proxy, pool_lock, cf_lock, hung>>
    /\ UNCHANGED dip20

\* deposit from the reply of transferFrom to the await of mint, or to its
\* return (lines 267-275).
deposit_transfer_reply(s, transferred) ==
    /\ ~hung
    /\ inflight[s].op = "deposit"
    /\ inflight[s].pc = "await_transfer"
    /\ IF transferred
       THEN /\ inflight' = [inflight EXCEPT ![s] =
                  [@ EXCEPT !.transferred = "ok", !.pc = "await_mint"]]
            /\ UNCHANGED last
       ELSE /\ inflight' = [inflight EXCEPT ![s] = Idle]
            /\ last' = Ended([inflight[s] EXCEPT !.transferred = "fail"], "false",
                             Cell(stablecoin_balances, inflight[s].caller, inflight[s].token))
    /\ UNCHANGED <<ledger, cf_pool, ai_proxy, pool_lock, cf_lock, calls, hung>>
    /\ UNCHANGED dip20

\* deposit_mint_reply without the `if !minted { return false; }` of
\* lines 276-279.
deposit_mint_reply_unchecked(s, minted) ==
    /\ ~hung
    /\ inflight[s].op = "deposit"
    /\ inflight[s].pc = "await_mint"
    /\ pool_lock = 0
    /\ LET caller == inflight[s].caller
           token == inflight[s].token
           amount == inflight[s].amount
           entry == Cell(stablecoin_balances, caller, token)
       IN /\ stablecoin_balances' =
                 Entry2(stablecoin_balances, caller, token, entry + amount)
          /\ mint_logs' = log_mint_global(mint_logs, caller, token, amount)
          /\ per_user_mint_logs' =
                 log_mint_per_user(per_user_mint_logs, caller, token, amount)
          /\ last' = Ended([inflight[s] EXCEPT
                               !.minted = IF minted THEN "ok" ELSE "fail",
                               !.pre = entry],
                           "true", entry + amount)
    /\ inflight' = [inflight EXCEPT ![s] = Idle]
    /\ UNCHANGED <<users, usernames, collateral, supported_tokens,
                   token_canisters, cf_pool, ai_proxy, pool_lock, cf_lock,
                   calls, hung>>
    /\ UNCHANGED dip20

\* deposit from the reply of mint to its return (lines 275-297).
deposit_mint_reply(s, minted) ==
    /\ ~hung
    /\ inflight[s].op = "deposit"
    /\ inflight[s].pc = "await_mint"
    /\ minted => pool_lock = 0
    /\ LET caller == inflight[s].caller
           token == inflight[s].token
           amount == inflight[s].amount
           entry == Cell(stablecoin_balances, caller, token)
       IN IF minted
          THEN /\ stablecoin_balances' =
                      Entry2(stablecoin_balances, caller, token, entry + amount)
               /\ mint_logs' = log_mint_global(mint_logs, caller, token, amount)
               /\ per_user_mint_logs' =
                      log_mint_per_user(per_user_mint_logs, caller, token, amount)
               /\ last' = Ended([inflight[s] EXCEPT !.minted = "ok", !.pre = entry],
                                "true", entry + amount)
          ELSE /\ UNCHANGED <<stablecoin_balances, mint_logs, per_user_mint_logs>>
               /\ last' = Ended([inflight[s] EXCEPT !.minted = "fail"], "false",
                                entry)
    /\ inflight' = [inflight EXCEPT ![s] = Idle]
    /\ UNCHANGED <<users, usernames, collateral, supported_tokens,
                   token_canisters, cf_pool, ai_proxy, pool_lock, cf_lock,
                   calls, hung>>
    /\ UNCHANGED dip20

(* ------------------------- contribute_crowdfund ----------------------- *)

\* contribute_crowdfund without the update of contributors of lines 420-422.
contribute_crowdfund_total_only(caller, token, amount) ==
    /\ CanStart
    /\ pool_lock = 0
    /\ calls' = calls + 1
    /\ LET total == Get(funds, token, 0)
           entry == Cell(contributors, caller, token)
           rec == [NewCall("contribute_crowdfund", caller, token, amount)
                      EXCEPT !.pre = entry]
       IN /\ funds' = Put(funds, token, total + amount)
          /\ UNCHANGED contributors
          /\ IF token \notin DOMAIN token_canisters
             THEN /\ last' = Ended(rec, "true", entry)
                  /\ UNCHANGED inflight
             ELSE /\ FreeSlots # {}
                  /\ inflight' = [inflight EXCEPT ![FirstFree] =
                        [rec EXCEPT !.pc = "await_mint"]]
                  /\ UNCHANGED last
    /\ UNCHANGED <<ledger, ai_proxy, pool_lock, cf_lock, hung>>
    /\ UNCHANGED dip20

\* contribute_crowdfund up to the await of mint, or to its return
\* (lines 412-432).
contribute_crowdfund(caller, token, amount) ==
    /\ CanStart
    /\ pool_lock = 0
    /\ calls' = calls + 1
    /\ LET total == Get(funds, token, 0)
           entry == Cell(contributors, caller, token)
           rec == [NewCall("contribute_crowdfund", caller, token, amount)
                      EXCEPT !.pre = entry]
       IN /\ funds' = Put(funds, token, total + amount)
          /\ contributors' = Entry2(contributors, caller, token, entry + amount)
          /\ IF token \notin DOMAIN token_canisters
             THEN /\ last' = Ended(rec, "true", entry + amount)
                  /\ UNCHANGED inflight
             ELSE /\ FreeSlots # {}
                  /\ inflight' = [inflight EXCEPT ![FirstFree] =
                        [rec EXCEPT !.pc = "await_mint"]]
                  /\ UNCHANGED last
    /\ UNCHANGED <<ledger, ai_proxy, pool_lock, cf_lock, hung>>
    /\ UNCHANGED dip20

\* contribute_crowdfund while a suspended call holds the POOL guard, blocking
\* outcome: CF_POOL is written (lines 415-423), then POOL.lock() of line 427
\* never returns.
contribute_crowdfund_hang(caller, token, amount) ==
    /\ CanStart
    /\ pool_lock # 0
    /\ LET total == Get(funds, token, 0)
           entry == Cell(contributors, caller, token)
       IN /\ funds' = Put(funds, token, total + amount)
          /\ contributors' = Entry2(contributors, caller, token, entry + amount)
    /\ hung' = TRUE
    /\ UNCHANGED <<ledger, ai_proxy, pool_lock, cf_lock, inflight, last, calls>>
    /\ UNCHANGED dip20

\* contribute_crowdfund from the reply of mint to its return (lines 432-439).
contribute_crowdfund_mint_reply(s, minted) ==
    /\ ~hung
    /\ inflight[s].op = "contribute_crowdfund"
    /\ inflight[s].pc = "await_mint"
    /\ minted => pool_lock = 0
    /\ LET caller == inflight[s].caller
           token == inflight[s].token
           amount == inflight[s].amount
           post == Cell(contributors, caller, token)
       IN IF minted
          THEN /\ mint_logs' = log_mint_global(mint_logs, caller, token, amount)
               /\ per_user_mint_logs' =
                      log_mint_per_user(per_user_mint_logs, caller, token, amount)
               /\ last' = Ended([inflight[s] EXCEPT !.minted = "ok"], "true", post)
          ELSE /\ UNCHANGED <<mint_logs, per_user_mint_logs>>
               /\ last' = Ended([inflight[s] EXCEPT !.minted = "fail"], "true", post)
    /\ inflight' = [inflight EXCEPT ![s] = Idle]
    /\ UNCHANGED <<users, usernames, stablecoin_balances, collateral,
                   supported_tokens, token_canisters, cf_pool, ai_proxy,
                   pool_lock, cf_lock, calls, hung>>
    /\ UNCHANGED dip20

\* The mint reply of a deposit or contribute_crowdfund says true and the call
\* runs POOL.lock() (lines 284, 434) while a suspended call holds the guard,
\* panic outcome: the reply handler traps and the call ends with no write.
mint_reply_trap(s) ==
    /\ ~hung
    /\ inflight[s].op \in {"deposit", "contribute_crowdfund"}
    /\ inflight[s].pc = "await_mint"
    /\ pool_lock # 0
    /\ last' = Ended([inflight[s] EXCEPT !.minted = "ok"], "trap",
                     IF inflight[s].op = "deposit"
                     THEN Cell(stablecoin_balances, inflight[s].caller, inflight[s].token)
                     ELSE Cell(contributors, inflight[s].caller, inflight[s].token))
    /\ inflight' = [inflight EXCEPT ![s] = Idle]
    /\ UNCHANGED <<ledger, cf_pool, ai_proxy, pool_lock, cf_lock, calls, hung>>
    /\ UNCHANGED dip20

(* --------------------------- specification ---------------------------- *)

Init ==
    /\ users = EmptyMap
    /\ usernames = EmptyMap
    /\ stablecoin_balances = EmptyMap
    /\ collateral = EmptyMap
    /\ supported_tokens = <<>>
    /\ token_canisters = EmptyMap
    /\ mint_logs = <<>>
    /\ per_user_mint_logs = EmptyMap
    /\ funds = EmptyMap
    /\ contributors = EmptyMap
    /\ ai_proxy = "None"
    /\ pool_lock = 0
    /\ cf_lock = 0
    /\ inflight = [s \in Slots |-> Idle]
    /\ last = Idle
    /\ calls = 0
    /\ hung = FALSE
    /\ DIP20Init

\* The update calls that lock POOL as their first access to it.
LockingOps ==
    {"init_tokens", "signup", "add_token", "deposit", "withdraw_collateral",
     "borrow", "repay", "deposit_collateral", "contribute_crowdfund"}

Next ==
    \/ init_tokens
    \/ \E u \in Users, n \in Names : signup(u, n)
    \/ set_ai_proxy("ai")
    \/ \E t \in Tokens, p \in Principals : add_token(t, p)
    \/ \E u \in Users, t \in Tokens, a \in Amounts : deposit(u, t, a)
    \/ \E u \in Users, t \in Tokens, a \in DebitAmounts :
           withdraw_collateral(u, t, a)
    \/ \E u \in Users, t \in Tokens, a \in Amounts : borrow(u, t, a)
    \/ \E u \in Users, t \in Tokens, a \in DebitAmounts : repay(u, t, a)
    \/ \E u \in Users, t \in Tokens, a \in Amounts : deposit_collateral(u, t, a)
    \/ \E u \in Users, t \in Tokens, a \in Amounts : contribute_crowdfund(u, t, a)
    \/ \E s \in Slots, r \in RiskReplies : borrow_risk_reply(s, r)
    \/ \E s \in Slots, m \in BOOLEAN : borrow_mint_reply(s, m)
    \/ \E s \in Slots, r \in RiskReplies : deposit_collateral_risk_reply(s, r)
    \/ \E s \in Slots, ok \in BOOLEAN : deposit_transfer_reply(s, ok)
    \/ \E s \in Slots, m \in BOOLEAN : deposit_mint_reply(s, m)
    \/ \E s \in Slots, m \in BOOLEAN : contribute_crowdfund_mint_reply(s, m)
    \/ \E s \in Slots : mint_reply_trap(s)
    \/ \E op \in LockingOps, u \in Users, t \in Tokens, a \in DebitAmounts :
           call_trap(op, u, t, a)
    \/ \E u \in Users, t \in Tokens, a \in Amounts :
           contribute_crowdfund_hang(u, t, a)
    \/ Hang

Spec == Init /\ [][Next]_vars

\* risk_check on its own, for arguments that its two callers never pass
\* (they pass the same USD value as borrowed_usd and as deposits_usd): the
\* account of u1 exists, a principal is stored, and `last` holds the
\* arguments; risk_check builds the request and is suspended on the call
\* (lines 197-217).
RiskCheckInit ==
    /\ users = Put(EmptyMap, "u1", NewAccount)
    /\ usernames = Put(EmptyMap, "u1", "alice")
    /\ stablecoin_balances = EmptyMap
    /\ collateral = EmptyMap
    /\ supported_tokens = <<>>
    /\ token_canisters = EmptyMap
    /\ mint_logs = <<>>
    /\ per_user_mint_logs = EmptyMap
    /\ funds = EmptyMap
    /\ contributors = EmptyMap
    /\ ai_proxy = "ai"
    /\ pool_lock = 0
    /\ cf_lock = 0
    /\ inflight = [s \in Slots |-> Idle]
    /\ \E b \in UsdBorrowed, d \in UsdDeposits :
           last = [NewCall("risk_check", "u1", "", 0) EXCEPT
                      !.borrowed_usd = b, !.deposits_usd = d]
    /\ calls = 0
    /\ hung = FALSE
    /\ DIP20Init

risk_check ==
    /\ last.op = "risk_check"
    /\ last.pc = "idle"
    /\ ~principal_unset
    /\ last' = [last EXCEPT
                   !.pc = "await_risk",
                   !.request = risk_request(users[last.caller], last.coll_usd,
                                   last.borrowed_usd, last.deposits_usd)]
    /\ UNCHANGED <<ledger, cf_pool, ai_proxy, pool_lock, cf_lock, inflight,
                   calls, hung>>
    /\ UNCHANGED dip20

RiskCheckSpec == RiskCheckInit /\ [][risk_check]_vars

(* ----------------- dip20_icp_token: the update calls ------------------ *)

balanceOf(owner) == Get(balances, owner, 0)

allowance(owner, spender) == Get(allowances, <<owner, spender>>, 0)

approve(caller, spender, amount) ==
    /\ allowances' = Put(allowances, <<caller, spender>>, amount)
    /\ token_last' = TokenCall("approve", caller, caller, spender, amount, "true")
    /\ UNCHANGED <<total_supply, balances>>
    /\ UNCHANGED pool_canister

transfer(caller, to, amount) ==
    /\ LET sender_balance == Get(balances, caller, 0)
           debited == Put(balances, caller, sender_balance - amount)
           to_balance == Get(debited, to, 0)
       IN IF sender_balance < amount
          THEN /\ UNCHANGED balances
               /\ token_last' =
                      TokenCall("transfer", caller, caller, to, amount, "false")
          ELSE /\ balances' = Put(debited, to, to_balance + amount)
               /\ token_last' =
                      TokenCall("transfer", caller, caller, to, amount, "true")
    /\ UNCHANGED <<total_supply, allowances>>
    /\ UNCHANGED pool_canister

\* transferFrom with to_balance read before the sender is debited.
transferFrom_early_read(caller, from, to, amount) ==
    /\ LET allowed == Get(allowances, <<from, caller>>, 0)
           from_balance == Get(balances, from, 0)
           to_balance == Get(balances, to, 0)
           debited == Put(balances, from, from_balance - amount)
       IN IF allowed < amount \/ from_balance < amount
          THEN /\ UNCHANGED <<balances, allowances>>
               /\ token_last' =
                      TokenCall("transferFrom", caller, from, to, amount, "false")
          ELSE /\ balances' = Put(debited, to, to_balance + amount)
               /\ allowances' =
                      Put(allowances, <<from, caller>>, allowed - amount)
               /\ token_last' =
                      TokenCall("transferFrom", caller, from, to, amount, "true")
    /\ UNCHANGED total_supply
    /\ UNCHANGED pool_canister

transferFrom(caller, from, to, amount) ==
    /\ LET allowed == Get(allowances, <<from, caller>>, 0)
           from_balance == Get(balances, from, 0)
           debited == Put(balances, from, from_balance - amount)
           to_balance == Get(debited, to, 0)
       IN IF allowed < amount \/ from_balance < amount
          THEN /\ UNCHANGED <<balances, allowances>>
               /\ token_last' =
                      TokenCall("transferFrom", caller, from, to, amount, "false")
          ELSE /\ balances' = Put(debited, to, to_balance + amount)
               /\ allowances' =
                      Put(allowances, <<from, caller>>, allowed - amount)
               /\ token_last' =
                      TokenCall("transferFrom", caller, from, to, amount, "true")
    /\ UNCHANGED total_supply
    /\ UNCHANGED pool_canister

\* mint accepts any caller (the caller check of lines 124-127 is commented
\* out).
mint(to, amount) ==
    /\ total_supply + amount <= MaxSupply
    /\ LET to_balance == Get(balances, to, 0)
       IN balances' = Put(balances, to, to_balance + amount)
    /\ total_supply' = total_supply + amount
    /\ token_last' = TokenCall("mint", "", "", to, amount, "true")
    /\ UNCHANGED allowances
    /\ UNCHANGED pool_canister

TokenNext ==
    \/ \E c \in Holders, sp \in Holders, a \in TokenAmounts : approve(c, sp, a)
    \/ \E c \in Holders, to \in Holders, a \in TokenAmounts : transfer(c, to, a)
    \/ \E c \in Holders, f \in Holders, to \in Holders, a \in TokenAmounts :
           transferFrom(c, f, to, a)
    \/ \E to \in Holders, a \in TokenAmounts : mint(to, a)

TokenSpec == Init /\ [][TokenNext]_vars

\* A reply to the external call that the call in slot s is suspended on.
Reply(s) ==
    \/ \E r \in RiskReplies : borrow_risk_reply(s, r)
    \/ \E m \in BOOLEAN : borrow_mint_reply(s, m)
    \/ \E r \in RiskReplies : deposit_collateral_risk_reply(s, r)
    \/ \E ok \in BOOLEAN : deposit_transfer_reply(s, ok)
    \/ \E m \in BOOLEAN : deposit_mint_reply(s, m)
    \/ \E m \in BOOLEAN : contribute_crowdfund_mint_reply(s, m)
    \/ mint_reply_trap(s)

\* Every external call is answered, and the canister runs the reply handler.
FairSpec == Spec /\ \A s \in Slots : WF_vars(Reply(s))


(* ======================== properties checked ========================== *)

\* The Collateral Policy of the specification: 150% of the borrowed value,
\* truncated.
required_collateral(borrowed_usd) == (borrowed_usd * 3) \div 2

\* The USD values that the collateral of u, and the balances of u, can
\* aggregate to (one for every order of the entries).
CollateralUsd(u) ==
    LET m == Get(collateral, u, EmptyMap)
    IN {aggregate_collateral(m, o) : o \in Orders(m)}

BorrowedUsd(u) ==
    LET m == Get(stablecoin_balances, u, EmptyMap)
    IN {aggregate_borrowed(m, o) : o \in Orders(m)}

\* The Phase-1 check of the specification on the positions a call read when it
\* started: a borrow must leave collateral >= required_collateral(borrowed +
\* delta); adding collateral always passes.
Phase1Passes(rec) ==
    \/ rec.op = "deposit_collateral"
    \/ /\ rec.op = "borrow"
       /\ rec.coll_usd >=
              required_collateral(rec.borrowed_usd + rec.amount * Price(rec.token))

Quiescent == \A s \in Slots : inflight[s].op = "none"

\* Number of counted calls that have ended: every call started has ended or
\* is suspended in a slot.
EndedCalls == calls - Cardinality({s \in Slots : inflight[s].op # "none"})

\* This step starts a call of `op` and runs it to its end (to its return, or
\* to a trap); last' describes it.
RunsWhole(op) ==
    /\ calls' = calls + 1
    /\ EndedCalls' = EndedCalls + 1
    /\ last'.op = op

\* The balance of every user and token.
BalanceView == [u \in Users |-> [t \in Tokens |-> Cell(stablecoin_balances, u, t)]]

CollateralView == [u \in Users |-> [t \in Tokens |-> Cell(collateral, u, t)]]

\* C1: whenever no operation is in progress, every account's USD collateral
\* is at least required_collateral of its USD borrowed value.
C1_CollateralCoversBorrowed ==
    Quiescent =>
        \A u \in Users :
            \A c \in CollateralUsd(u), b \in BorrowedUsd(u) :
                c >= required_collateral(b)

\* C2: a borrow or deposit_collateral that passes Phase 1 and whose risk
\* verdict is Unavailable returns true, and unless the verdict is high_risk
\* its delta stays applied.
C2_RiskFailOpen ==
    (last.op \in {"borrow", "deposit_collateral"} /\ Phase1Passes(last)) =>
        /\ last.verdict = "unavailable" => last.result = "true"
        /\ last.verdict \in {"unavailable", "safe"} =>
               last.post = last.pre + last.amount

\* C3: a borrow that passes Phase 1 and is answered high_risk ends with the
\* borrowed amount it started with, and makes no mint call.
C3_BorrowRevertedOnHighRisk ==
    /\ (last.op = "borrow" /\ last.verdict = "high_risk" /\ Phase1Passes(last)) =>
           (last.post = last.pre /\ last.minted = "none")
    /\ \A s \in Slots :
           (inflight[s].op = "borrow" /\ inflight[s].verdict = "high_risk"
               /\ Phase1Passes(inflight[s])) => inflight[s].pc # "await_mint"

\* C4: a borrow that fails Phase 1 is never suspended on an external call; it
\* returns false with no risk request, no mint call and its balance unchanged.
C4_BorrowRejectedInPhase1 ==
    /\ \A s \in Slots : inflight[s].op = "borrow" => Phase1Passes(inflight[s])
    /\ (last.op = "borrow" /\ last.result # "trap" /\ ~Phase1Passes(last)) =>
           /\ last.result = "false"
           /\ last.request = NoRequest
           /\ last.minted = "none"
           /\ last.post = last.pre

\* C5: no call that is suspended on an external call holds POOL or CF_POOL.
C5_NoLockAcrossAwait ==
    \A s \in Slots :
        inflight[s].pc \in {"await_risk", "await_transfer", "await_mint"} =>
            (pool_lock # s /\ cf_lock # s)

\* C6: a step of a deposit changes the caller's balance and the mint logs only
\* when it ends the deposit with true after transferFrom and then mint both
\* said true, and then it adds the amount and appends one entry; the mint call
\* is made only after transferFrom said true; a deposit that ends otherwise
\* (a false reply, or no ledger registered for the token) returns false and
\* leaves balances and mint logs as they were.
C6_DepositBookkeepingAfterBoth ==
    [][ /\ \A s \in Slots :
              (inflight[s].op = "deposit" /\ inflight'[s] # inflight[s]) =>
                  LET c == inflight[s].caller
                      t == inflight[s].token
                      a == inflight[s].amount
                      ended == inflight'[s].op = "none"
                      committed == ended /\ last'.result = "true"
                  IN /\ committed =>
                            /\ last'.transferred = "ok" /\ last'.minted = "ok"
                            /\ inflight[s].pc = "await_mint"
                            /\ BalanceView' = [BalanceView EXCEPT
                                                  ![c][t] = BalanceView[c][t] + a]
                            /\ mint_logs' = Append(mint_logs, <<c, t, a>>)
                            /\ Get(per_user_mint_logs', c, <<>>) =
                                   Append(Get(per_user_mint_logs, c, <<>>), <<t, a>>)
                     /\ ~committed =>
                            UNCHANGED <<stablecoin_balances, mint_logs,
                                        per_user_mint_logs>>
                     /\ (ended /\ "fail" \in {last'.transferred, last'.minted}) =>
                            last'.result = "false"
                     /\ inflight'[s].pc = "await_mint" =>
                            inflight'[s].transferred = "ok"
        /\ (RunsWhole("deposit") /\ last'.result # "trap") =>
              /\ last'.token \notin DOMAIN token_canisters
              /\ last'.result = "false"
              /\ UNCHANGED <<stablecoin_balances, mint_logs, per_user_mint_logs>>
      ]_vars

\* C6 witness: a deposit has ended with true and its mint is logged.
C6_Witness ==
    /\ last.op = "deposit" /\ last.result = "true"
    /\ last.post = last.pre + last.amount
    /\ Len(mint_logs) > 0
    /\ mint_logs[Len(mint_logs)] = <<last.caller, last.token, last.amount>>

\* C7: signup for a user with no account returns true and creates it; signup
\* for a user that has one returns false and leaves accounts, usernames,
\* balances, collateral and every other ledger field as they were, whatever
\* username it passes.
C7_SignupTwice ==
    [][ (RunsWhole("signup") /\ last'.result # "trap") =>
            IF last'.caller \in DOMAIN users
            THEN last'.result = "false" /\ UNCHANGED <<ledger, cf_pool>>
            ELSE /\ last'.result = "true"
                 /\ last'.caller \in DOMAIN users'
                 /\ usernames'[last'.caller] = last'.username
      ]_vars

\* C7 witness: a second signup, with another username, has returned false.
C7_Witness ==
    /\ last.op = "signup" /\ last.result = "false"
    /\ last.caller \in DOMAIN users
    /\ usernames[last.caller] # last.username

\* C8: the step that ends a deposit with true changes only the caller's
\* balance of that token; a repay of the same token and amount by the same
\* caller that is the next call to end after it (POOL being free) returns
\* true and puts that balance back to its value before the deposit, changing
\* no other balance and no collateral.
C8_DepositRepayRoundTrip ==
    [][ /\ \A s \in Slots :
              (inflight[s].op = "deposit" /\ inflight'[s].op = "none"
                  /\ last'.result = "true") =>
                  /\ BalanceView' = [BalanceView EXCEPT
                         ![last'.caller][last'.token] = last'.pre + last'.amount]
                  /\ BalanceView[last'.caller][last'.token] = last'.pre
                  /\ CollateralView' = CollateralView
        /\ (/\ pool_lock = 0 /\ last.op = "deposit" /\ last.result = "true"
            /\ RunsWhole("repay")
            /\ last'.caller = last.caller /\ last'.token = last.token
            /\ last'.amount = last.amount) =>
              /\ last'.result = "true"
              /\ BalanceView' = [BalanceView EXCEPT
                                    ![last.caller][last.token] = last.pre]
              /\ CollateralView' = CollateralView
      ]_vars

\* C8 witness: after init_tokens, a deposit and a repay were the only calls; the
\* repay has returned true and left the balance at 0, and the mint log holds
\* the deposit of that caller, token and amount.
C8_Witness ==
    /\ calls = 2
    /\ last.op = "repay" /\ last.result = "true"
    /\ last.post = 0 /\ last.pre = last.amount
    /\ Len(mint_logs) > 0
    /\ mint_logs[Len(mint_logs)] = <<last.caller, last.token, last.amount>>
    /\ Cell(stablecoin_balances, last.caller, last.token) = 0

\* C9: a step of a borrow changes the global or per-user mint log only when
\* the mint call of that borrow said true.
C9_BorrowLogsOnlyMinted ==
    [][ \A s \in Slots :
            (/\ inflight[s].op = "borrow"
             /\ inflight'[s] # inflight[s]
             /\ \/ mint_logs' # mint_logs
                \/ per_user_mint_logs' # per_user_mint_logs) =>
                (inflight'[s].op = "none" /\ last'.minted = "ok")
      ]_vars

\* C10: a withdraw_collateral that would leave the user's USD collateral below
\* required_collateral of the user's USD borrowed value does not return true
\* and changes no collateral.
C10_WithdrawKeepsRatio ==
    [][ RunsWhole("withdraw_collateral") =>
            LET u == last'.caller
            IN \A c \in CollateralUsd(u), b \in BorrowedUsd(u) :
                   c - last'.amount * Price(last'.token) < required_collateral(b)
                       => (last'.result # "true"
                              /\ CollateralView' = CollateralView)
      ]_vars

\* C11: no balance or collateral value is ever negative; a repay of more than
\* the caller's balance, and a withdraw_collateral of more than the user's
\* collateral, return false and leave every balance and collateral value the
\* read calls give as it was.
C11_UnderflowRejected ==
    /\ [](\A u \in Users, t \in Tokens :
              BalanceView[u][t] >= 0 /\ CollateralView[u][t] >= 0)
    /\ [][ (/\ last'.result # "trap"
            /\ \/ /\ RunsWhole("repay")
                  /\ last'.amount > BalanceView[last'.caller][last'.token]
               \/ /\ RunsWhole("withdraw_collateral")
                  /\ last'.amount > CollateralView[last'.caller][last'.token]) =>
               /\ last'.result = "false"
               /\ BalanceView' = BalanceView
               /\ CollateralView' = CollateralView
         ]_vars

\* C11 witness: a withdraw_collateral of more than a collateral that is not
\* zero has returned false and the collateral is still there.
C11_Witness ==
    /\ last.op = "withdraw_collateral" /\ last.result = "false"
    /\ last.pre > 0 /\ last.amount > last.pre
    /\ CollateralView[last.caller][last.token] = last.pre

\* The crowdfunding values the read call gives.
CrowdfundView ==
    [u \in Users |-> [t \in Tokens |-> Cell(contributors, u, t)]]

FundsView == [t \in Tokens |-> Get(funds, t, 0)]

\* The operations that take a token and may mint it.
MintingOps == {"deposit", "borrow", "contribute_crowdfund"}

\* C12: no step of a deposit, borrow or contribute_crowdfund that names a
\* token absent from supported_tokens changes a balance, a collateral, the
\* crowdfunding pool or a mint log, and such a call never returns true.
C12_UnsupportedTokenRejected ==
    [][ /\ \A op \in MintingOps :
              (RunsWhole(op) /\ last'.result # "trap"
                  /\ ~Contains(supported_tokens, last'.token)) =>
                  /\ last'.result = "false"
                  /\ BalanceView' = BalanceView
                  /\ CollateralView' = CollateralView
                  /\ CrowdfundView' = CrowdfundView
                  /\ FundsView' = FundsView
                  /\ UNCHANGED <<mint_logs, per_user_mint_logs>>
        /\ \A s \in Slots :
              (inflight'[s] # inflight[s] /\ inflight'[s].op \in MintingOps) =>
                  Contains(supported_tokens, inflight'[s].token)
      ]_vars

\* C13: add_token(token, address) returns true for every token and leaves the
\* token in supported_tokens with a ledger address that add_token can give, so
\* that a deposit of it finds a ledger; no step removes a token from
\* supported_tokens or an entry from token_canisters.
C13_AddTokenRegistersAny ==
    [][ /\ (RunsWhole("add_token") /\ last'.result # "trap") =>
              /\ last'.result = "true"
              /\ Contains(supported_tokens', last'.token)
              /\ last'.token \in DOMAIN token_canisters'
              /\ token_canisters'[last'.token] \in Principals
        /\ DOMAIN token_canisters \subseteq DOMAIN token_canisters'
        /\ \A i \in 1..Len(supported_tokens) :
              Contains(supported_tokens', supported_tokens[i])
      ]_vars

\* C14: the step that ends a contribute_crowdfund after its mint call appends
\* the entry of the contribution to both mint logs if the mint call said true
\* and leaves both logs as they were if it said false; a contribute_crowdfund
\* that makes no mint call leaves them as they were; the log is written with
\* CF_POOL free, and the contribution stays in the crowdfunding pool.
C14_ContributeLogsIffMinted ==
    [][ /\ \A s \in Slots :
              (inflight[s].op = "contribute_crowdfund"
                  /\ inflight'[s].op = "none") =>
                  LET c == inflight[s].caller
                      t == inflight[s].token
                      a == inflight[s].amount
                  IN /\ cf_lock = 0
                     /\ CrowdfundView' = CrowdfundView
                     /\ FundsView' = FundsView
                     /\ IF last'.minted = "ok"
                        THEN /\ mint_logs' = Append(mint_logs, <<c, t, a>>)
                             /\ Get(per_user_mint_logs', c, <<>>) =
                                    Append(Get(per_user_mint_logs, c, <<>>), <<t, a>>)
                        ELSE UNCHANGED <<mint_logs, per_user_mint_logs>>
        /\ (RunsWhole("contribute_crowdfund") /\ last'.result # "trap") =>
              /\ last'.minted = "none"
              /\ UNCHANGED <<mint_logs, per_user_mint_logs>>
              /\ CrowdfundView' = [CrowdfundView EXCEPT
                     ![last'.caller][last'.token] = @ + last'.amount]
      ]_vars

\* C15: a deposit_collateral that was answered high_risk ends with the
\* caller's collateral of the token at its value before the call; on any other
\* verdict it ends with that value plus the amount.
C15_DepositCollateralReverted ==
    (last.op = "deposit_collateral" /\ last.result # "trap") =>
        IF last.verdict = "high_risk"
        THEN last.post = last.pre
        ELSE last.post = last.pre + last.amount

\* C16: while a borrow or deposit_collateral is suspended on the risk call,
\* the read calls return, get_balance with the increased balance of a borrow
\* and get_user_collateral with the increased collateral of a
\* deposit_collateral, and a call that is made then runs: it does not trap
\* on POOL and the canister does not block.
C16_TentativeVisibleWhileSuspended ==
    [][ \A s \in Slots :
            (inflight[s].pc = "await_risk"
                /\ inflight[s].op \in {"borrow", "deposit_collateral"}) =>
                LET c == inflight[s].caller
                    t == inflight[s].token
                    tentative == inflight[s].pre + inflight[s].amount
                IN /\ get_mint_logs # {}
                   /\ get_per_user_mint_logs(c) # {}
                   /\ inflight[s].op = "borrow" =>
                          get_balance(c, t) = {tentative}
                   /\ inflight[s].op = "deposit_collateral" =>
                          /\ get_user_collateral(c) # {}
                          /\ \A m \in get_user_collateral(c) :
                                 Get(m, t, 0) = tentative
                   /\ (calls' = calls + 1 /\ EndedCalls' = EndedCalls + 1) =>
                          last'.result # "trap"
                   /\ ~hung'
      ]_vars

\* C17: with every external call answered, every call that has started ends
\* by returning true or false to its caller: none ends by a trap on the POOL
\* lock, the canister never blocks on it, and every suspended call is resumed
\* and ends.
C17_EveryCallReturns ==
    /\ [](~hung /\ last.result # "trap")
    /\ \A s \in Slots : (inflight[s].op # "none") ~> (inflight[s].op = "none")

\* C18: a borrow or deposit_collateral of a user with an account, made while
\* no risk-service principal is stored, gets the verdict Unavailable in the
\* step that starts it: no risk request is sent, the call is not suspended on
\* a risk call, and every account (its risk_advice too) stays as it was.
C18_NoPrincipalNoCall ==
    [][ /\ \A op \in {"borrow", "deposit_collateral"} :
              (RunsWhole(op) /\ last'.result # "trap" /\ ai_proxy = "None"
                  /\ last'.caller \in DOMAIN users) =>
                  /\ last'.verdict = "unavailable"
                  /\ last'.request = NoRequest
                  /\ users' = users
        /\ \A s \in Slots :
              (inflight'[s].pc = "await_risk" /\ inflight[s].pc # "await_risk") =>
                  ai_proxy # "None"
      ]_vars

\* C18 witness: a deposit_collateral of a user with an account has ended with
\* the verdict Unavailable and no request, no principal being stored.
C18_Witness ==
    /\ ai_proxy = "None"
    /\ last.op = "deposit_collateral" /\ last.caller \in DOMAIN users
    /\ last.verdict = "unavailable" /\ last.request = NoRequest
    /\ users[last.caller].risk_advice = "None"

\* The value the specification gives for the volatility of a request: an
\* integer nearest to 1000 times the ratio borrowed_usd / deposits_usd clamped
\* to [1/100, 1/2], and 10 with no deposits.  The clamped ratio is n / m.
VolatilityAsSpecified(v, borrowed_usd, deposits_usd) ==
    IF deposits_usd > 0
    THEN LET below == 100 * borrowed_usd < deposits_usd
             above == 2 * borrowed_usd > deposits_usd
             n == IF below \/ above THEN 1 ELSE borrowed_usd
             m == IF below THEN 100 ELSE IF above THEN 2 ELSE deposits_usd
         IN /\ 2 * (v * m - 1000 * n) <= m
            /\ 2 * (1000 * n - v * m) <= m
    ELSE v = 10

\* The calls that are suspended, and the one that ended last.
CallRecords == {inflight[s] : s \in Slots} \cup {last}

\* C19: the volatility of every risk request that has been sent is an integer
\* in [10, 500], and for finite USD values it is the value the specification
\* gives for the borrowed_usd and deposits_usd that risk_check was called
\* with.
C19_VolatilityInBand ==
    \A rec \in CallRecords :
        rec.request # NoRequest =>
            /\ rec.request.volatility \in 10..500
            /\ (rec.borrowed_usd >= 0 /\ rec.deposits_usd >= 0) =>
                   VolatilityAsSpecified(rec.request.volatility,
                                         rec.borrowed_usd, rec.deposits_usd)

IsPrefix(p, q) ==
    /\ Len(p) <= Len(q)
    /\ \A i \in 1..Len(p) : p[i] = q[i]

\* The (token, amount) pairs of the entries of `user` in a global log, in the
\* order of the log.
RECURSIVE EntriesOf(_, _)
EntriesOf(log, user) ==
    IF log = <<>> THEN <<>>
    ELSE LET rest == EntriesOf(Tail(log), user)
         IN IF Head(log)[1] = user
            THEN <<<<Head(log)[2], Head(log)[3]>>>> \o rest
            ELSE rest

\* C20: in every state the per-user mint log of every user is the sequence of
\* that user's entries in the global mint log, in the same order, and no user
\* outside the global log has entries; every step leaves the global log and
\* every per-user log as it was or with entries appended at the end.
C20_MintLogAppendOnly ==
    /\ [](/\ \A u \in Users :
                 Get(per_user_mint_logs, u, <<>>) = EntriesOf(mint_logs, u)
          /\ DOMAIN per_user_mint_logs \subseteq Users)
    /\ [][ /\ IsPrefix(mint_logs, mint_logs')
           /\ \A u \in Users :
                  IsPrefix(Get(per_user_mint_logs, u, <<>>),
                           Get(per_user_mint_logs', u, <<>>))
         ]_vars

\* C20 witness: the global log holds three entries, of one user, of another
\* and of the first again.
C20_Witness ==
    /\ Len(mint_logs) = 3
    /\ mint_logs[1][1] = mint_logs[3][1]
    /\ mint_logs[1][1] # mint_logs[2][1]
    /\ Len(Get(per_user_mint_logs, mint_logs[1][1], <<>>)) = 2

\* Sum over the users in us of their contribution of token t.
RECURSIVE SumContributions(_, _)
SumContributions(us, t) ==
    IF us = {} THEN 0
    ELSE LET u == CHOOSE x \in us : TRUE
         IN Cell(contributors, u, t) + SumContributions(us \ {u}, t)

\* C21: in every state, with contributions suspended on their mint call or
\* not, the total of every token in CF_POOL.funds is the sum of the users'
\* contributions of that token; and no step of a contribute_crowdfund changes
\* a balance or a collateral of the ledger.
C21_FundsAreSumOfContributions ==
    /\ [](/\ DOMAIN funds \subseteq Tokens
          /\ DOMAIN contributors \subseteq Users
          /\ \A t \in Tokens : FundsView[t] = SumContributions(Users, t))
    /\ [][ /\ RunsWhole("contribute_crowdfund") =>
                 (BalanceView' = BalanceView /\ CollateralView' = CollateralView)
           /\ \A s \in Slots :
                 (inflight'[s] # inflight[s]
                     /\ "contribute_crowdfund" \in
                            {inflight[s].op, inflight'[s].op}) =>
                     /\ BalanceView' = BalanceView
                     /\ CollateralView' = CollateralView
         ]_vars

\* C21 witness: two users have contributed the same token, the total is the
\* sum of the two, and one of the contributions is suspended on its mint call.
C21_Witness ==
    /\ \E t \in Tokens :
           /\ FundsView[t] >= 2
           /\ \A u \in Users : CrowdfundView[u][t] >= 1
    /\ \E s \in Slots : /\ inflight[s].op = "contribute_crowdfund"
                         /\ inflight[s].pc = "await_mint"

\* C22: every account has credit_score 700 in every state; no step removes an
\* account, and a step that adds one is a signup of that user returning true
\* and adds that account only.
C22_AccountsOnlyBySignup ==
    /\ [](\A u \in DOMAIN users : users[u].credit_score = 700)
    /\ [][ /\ DOMAIN users \subseteq DOMAIN users'
           /\ DOMAIN users' # DOMAIN users =>
                  /\ RunsWhole("signup")
                  /\ last'.result = "true"
                  /\ DOMAIN users' = DOMAIN users \cup {last'.caller}
         ]_vars

\* C22 witness: a borrow of a user with an account has been answered high risk
\* by the risk service and has ended; the advice is stored in the account and
\* its credit_score is 700; the other user has no account.
C22_Witness ==
    /\ last.op = "borrow" /\ last.verdict = "high_risk"
    /\ last.caller \in DOMAIN users
    /\ \E p \in Probs :
           users[last.caller].risk_advice = risk_advice_of(RiskResponse(1, p))
    /\ users[last.caller].credit_score = 700
    /\ DOMAIN users = {last.caller}

\* C23: every risk request that a borrow or deposit_collateral has sent has
\* equal borrowed and deposits fields, both the USD value of the caller's
\* stablecoin_balances when the call read them (still the caller's while the
\* call is suspended on the risk call); and whenever risk_check is called
\* the way these two call it, with one value as borrowed_usd and as
\* deposits_usd, the two fields are equal and the volatility sent is 500 if
\* that value is not zero and 10 if it is.
C23_BorrowedEqualsDeposits ==
    \A rec \in CallRecords :
        rec.request # NoRequest =>
            /\ rec.op \in {"borrow", "deposit_collateral"} =>
                   /\ rec.borrowed_usd = rec.deposits_usd
                   /\ rec.request.borrowed = as_u64(rec.borrowed_usd)
                   /\ rec.request.deposits = as_u64(rec.deposits_usd)
                   /\ rec.pc = "await_risk" =>
                          rec.deposits_usd \in BorrowedUsd(rec.caller)
            /\ rec.borrowed_usd = rec.deposits_usd =>
                   /\ rec.request.borrowed = rec.request.deposits
                   /\ rec.request.volatility =
                          IF rec.deposits_usd # 0 THEN 500 ELSE 10

\* Sum over the principals in hs of their token balance in the map bal.
RECURSIVE SumBalances(_, _)
SumBalances(bal, hs) ==
    IF hs = {} THEN 0
    ELSE LET h == CHOOSE x \in hs : TRUE
         IN Get(bal, h, 0) + SumBalances(bal, hs \ {h})

\* C24: on the token ledger, after any sequence of mint, transfer,
\* transferFrom and approve calls, total_supply is the sum of all balances;
\* a transfer or transferFrom (from = to included) leaves that sum and
\* total_supply as they were; a transferFrom returns false exactly when the
\* (from, caller) allowance or the balance of from is below amount and then
\* changes no balance and no allowance; one that returns true lowers the
\* (from, caller) allowance by exactly amount.
C24_TokenLedgerConserved ==
    /\ [](/\ DOMAIN balances \subseteq Holders
          /\ total_supply = SumBalances(balances, Holders))
    /\ [][ LET c == token_last'
           IN /\ c.op \in {"transfer", "transferFrom"} =>
                    /\ SumBalances(balances', Holders) =
                           SumBalances(balances, Holders)
                    /\ total_supply' = total_supply
              /\ c.op = "transferFrom" =>
                    /\ c.result = "false" <=>
                           \/ allowance(c.from, c.caller) < c.amount
                           \/ balanceOf(c.from) < c.amount
                    /\ c.result = "false" =>
                           (balances' = balances /\ allowances' = allowances)
                    /\ c.result = "true" =>
                           Get(allowances', <<c.from, c.caller>>, 0) =
                               allowance(c.from, c.caller) - c.amount ]_vars

\* C24 witness: a transferFrom of a positive amount from a principal to
\* itself has returned true with the whole supply minted, and an allowance
\* has been spent down to zero.
C24_Witness ==
    /\ token_last.op = "transferFrom"
    /\ token_last.result = "true"
    /\ token_last.from = token_last.to
    /\ token_last.from # token_last.caller
    /\ token_last.amount > 0
    /\ total_supply = MaxSupply
    /\ balanceOf(token_last.from) > 0
    /\ <<token_last.from, token_last.caller>> \in DOMAIN allowances
    /\ allowance(token_last.from, token_last.caller) = 0

=============================================================================
